---- MODULE Spec2Model ----
(***************************************************************************)
(* Trending Lyrics API (src/main.py): the chart ingestor get_trending, the *)
(* lyrics resolver get_lyrics, the provider fallback chain                 *)
(* fetch_lyrics_from_providers and the "song" collection they share.       *)
(*                                                                         *)
(* Titles and artists are sequences of one-character strings, so that      *)
(* str.strip() is computed and not assumed.  Lyrics texts, URLs and album  *)
(* names are strings.  A stored document is a function from the names of   *)
(* the fields it has to their values, as a MongoDB document is.            *)
(***************************************************************************)
EXTENDS Integers, Sequences, FiniteSets, TLC

VARIABLES
    dbUp,      \* database.db is not None (fixed when the process starts)
    song,      \* the documents of db["song"]
    last,      \* the last request served: its inputs, its response, its trace
    repeated,  \* the last request was a get_trending repeating the request before it
    parity,    \* the number of requests served so far is odd
    flagged,   \* what the get_trending served just before the last get_lyrics
               \* reported as lyrics_available for that request's title and
               \* artist: "true", "false", or "none" when it listed no such entry
    run        \* the requests being served at the same time: for each, where
               \* its handler stands and its local variables

vars == <<dbUp, song, last, repeated, parity, flagged, run>>

-----------------------------------------------------------------------------
(* Values *)

\* Python's None, where a string is expected
None == "<None>"

\* find_one's None, where a document is expected
NoDoc == [none |-> TRUE]

\* Python truthiness of an Optional[str]: neither None nor ""
Truthy(v) == v # None /\ v # ""

\* dict.get(f) on a document
Get(d, f) == IF f \in DOMAIN d THEN d[f] ELSE None

Whitespace == {" ", "\t", "\n"}

RECURSIVE LStrip(_)
LStrip(s) == IF s # <<>> /\ Head(s) \in Whitespace THEN LStrip(Tail(s)) ELSE s

RECURSIVE RStrip(_)
RStrip(s) ==
    IF s # <<>> /\ s[Len(s)] \in Whitespace
    THEN RStrip(SubSeq(s, 1, Len(s) - 1))
    ELSE s

\* str.strip()
Strip(s) == RStrip(LStrip(s))

\* str.startswith(p)
StartsWith(s, p) == Len(s) >= Len(p) /\ SubSeq(s, 1, Len(p)) = p

-----------------------------------------------------------------------------
(* Storage: db["song"], with the number of reads and writes a request made *)

\* the handle a request works on: the documents, and its own reads and writes
Handle(docs) == [docs |-> docs, reads |-> 0, writes |-> 0]

_normalize_song_key(title, artist) ==
    [title |-> Strip(title), artist |-> Strip(artist)]

\* a MongoDB equality filter
Matches(d, key) == \A f \in DOMAIN key : f \in DOMAIN d /\ d[f] = key[f]

\* a replacement of the document where the code merges into it
SetFieldsReplacing(d, doc) == doc

\* a merge that appends to the tags ("$push") where the code sets them
SetFieldsPushingTags(d, doc) ==
    [f \in DOMAIN d \cup DOMAIN doc |->
        IF f \in DOMAIN doc
        THEN IF f = "tags" /\ f \in DOMAIN d THEN d[f] \o doc[f] ELSE doc[f]
        ELSE d[f]]

\* {"$set": {**doc}} applied to a document
SetFields(d, doc) ==
    [f \in DOMAIN d \cup DOMAIN doc |-> IF f \in DOMAIN doc THEN doc[f] ELSE d[f]]

\* an insert of a new document where the code updates the one that matches
update_one_Inserting(docs, key, doc) == docs \cup {SetFields(key, doc)}

\* collection.update_one(key, {"$set": doc}, upsert=True)
update_one(docs, key, doc) ==
    IF \E d \in docs : Matches(d, key)
    THEN LET d == CHOOSE x \in docs : Matches(x, key)
         IN  (docs \ {d}) \cup {SetFields(d, doc)}
    ELSE docs \cup {SetFields(key, doc)}

\* collection.find_one(key)
find_one(docs, key) ==
    IF \E d \in docs : Matches(d, key)
    THEN CHOOSE d \in docs : Matches(d, key)
    ELSE NoDoc

_upsert_song(h, up, doc) ==
    IF ~up
    THEN h
    ELSE LET key == [title |-> Get(doc, "title"), artist |-> Get(doc, "artist")]
         IN  [h EXCEPT !.docs = update_one(h.docs, key, doc),
                       !.writes = h.writes + 1]

\* the handle after the lookup, and the document found
_get_song_from_db(h, up, title, artist) ==
    IF ~up
    THEN [h |-> h, doc |-> NoDoc]
    ELSE [h |-> [h EXCEPT !.reads = h.reads + 1],
          doc |-> find_one(h.docs, _normalize_song_key(title, artist))]

-----------------------------------------------------------------------------
(* The lyrics providers.  What requests.get does for one call is an input:  *)
(* it raises (timeout, connection error), or it answers with a status and   *)
(* a body that is no JSON, JSON but no object, or a JSON object.            *)

\* provider names with the first one pasted over the second
ProvidersMispasted == <<"lyrist", "lyrist", "some-random-api">>

Providers == <<"lyrist", "lyrics.ovh", "some-random-api">>

NetError == [kind |-> "error"]

Http(status, body) == [kind |-> "http", status |-> status, body |-> body]

NotJson == [json |-> "invalid"]

JsonArray == [json |-> "array"]

JsonObject(fields) == [json |-> "object", fields |-> fields]

\* the outcomes of a try block
Hit(lyr) == [outcome |-> "return", lyr |-> lyr]

Pass == [outcome |-> "pass", lyr |-> None]

Raise == [outcome |-> "raise", lyr |-> None]

\* the body of the try block of provider 1: lyrics, or else lyric
TryLyrist(r) ==
    IF r.kind = "error" THEN Raise
    ELSE IF r.status # 200 THEN Pass
    ELSE IF r.body.json = "invalid" THEN Raise
    ELSE IF r.body.json # "object" THEN Raise
    ELSE LET lyr == IF Truthy(Get(r.body.fields, "lyrics"))
                    THEN Get(r.body.fields, "lyrics")
                    ELSE Get(r.body.fields, "lyric")
         IN  IF Truthy(lyr) THEN Hit(lyr) ELSE Pass

\* the body of the try block of providers 2 and 3: lyrics
TryLyricsField(r) ==
    IF r.kind = "error" THEN Raise
    ELSE IF r.status # 200 THEN Pass
    ELSE IF r.body.json = "invalid" THEN Raise
    ELSE IF r.body.json # "object" THEN Raise
    ELSE LET lyr == Get(r.body.fields, "lyrics")
         IN  IF Truthy(lyr) THEN Hit(lyr) ELSE Pass

\* a try block without its except clause
ExceptNothing(t) == t

\* try: ... except Exception: pass
ExceptPass(t) == IF t.outcome = "raise" THEN Pass ELSE t

\* what the chain returns, and the providers it called, in order
Fetched(lyrics, source, calls) ==
    [lyrics |-> lyrics, source |-> source, calls |-> calls, raised |-> FALSE]

\* an exception that leaves the chain
FetchRaised(calls) ==
    [lyrics |-> None, source |-> None, calls |-> calls, raised |-> TRUE]

\* a chain that tries the third provider before the second
fetch_lyrics_ThirdBeforeSecond(artist, title, resp) ==
    LET a == ExceptPass(TryLyrist(resp[1])) IN
    IF a.outcome = "return" THEN Fetched(a.lyr, Providers[1], <<Providers[1]>>)
    ELSE
    LET c == ExceptPass(TryLyricsField(resp[3])) IN
    IF c.outcome = "return"
    THEN Fetched(c.lyr, Providers[3], <<Providers[1], Providers[3]>>)
    ELSE
    LET b == ExceptPass(TryLyricsField(resp[2])) IN
    IF b.outcome = "return"
    THEN Fetched(b.lyr, Providers[2], <<Providers[1], Providers[3], Providers[2]>>)
    ELSE Fetched(None, None, <<Providers[1], Providers[3], Providers[2]>>)

\* resp[i] is what the i-th provider does when called; artist and title only
\* build the URLs
fetch_lyrics_from_providers(artist, title, resp) ==
    LET a == ExceptPass(TryLyrist(resp[1])) IN
    IF a.outcome = "raise" THEN FetchRaised(<<Providers[1]>>)
    ELSE IF a.outcome = "return" THEN Fetched(a.lyr, Providers[1], <<Providers[1]>>)
    ELSE
    LET b == ExceptPass(TryLyricsField(resp[2])) IN
    IF b.outcome = "raise" THEN FetchRaised(<<Providers[1], Providers[2]>>)
    ELSE IF b.outcome = "return"
    THEN Fetched(b.lyr, Providers[2], <<Providers[1], Providers[2]>>)
    ELSE
    LET c == ExceptPass(TryLyricsField(resp[3])) IN
    IF c.outcome = "raise" THEN FetchRaised(<<Providers[1], Providers[2], Providers[3]>>)
    ELSE IF c.outcome = "return"
    THEN Fetched(c.lyr, Providers[3], <<Providers[1], Providers[2], Providers[3]>>)
    ELSE Fetched(None, None, <<Providers[1], Providers[2], Providers[3]>>)

-----------------------------------------------------------------------------
(* GET /api/lyrics *)

\* a response of get_lyrics: the status, the LyricsOut fields, the storage
\* handle the request leaves, the providers it called
LyricsResponse(status, lyrics, source, h, calls) ==
    [status |-> status, lyrics |-> lyrics, source |-> source, h |-> h, calls |-> calls]

\* get_lyrics after its validation: cache, providers, cache update
ResolveLyrics(h, up, artist, title, resp) ==
    LET g == _get_song_from_db(h, up, title, artist) IN
    IF g.doc # NoDoc /\ Truthy(Get(g.doc, "lyrics"))
    THEN LyricsResponse(200, Get(g.doc, "lyrics"), Get(g.doc, "lyrics_source"), g.h, <<>>)
    ELSE
    LET f == fetch_lyrics_from_providers(artist, title, resp) IN
    IF f.raised THEN LyricsResponse(500, None, None, g.h, f.calls)
    ELSE IF ~Truthy(f.lyrics) THEN LyricsResponse(404, None, None, g.h, f.calls)
    ELSE
    LET doc == [title |-> title, artist |-> artist,
                lyrics |-> f.lyrics, lyrics_source |-> f.source]
        h2 == IF up THEN _upsert_song(g.h, up, doc) ELSE g.h
    IN  LyricsResponse(200, f.lyrics, f.source, h2, f.calls)

\* a get_lyrics that caches the miss
get_lyrics_CachingMiss(h, up, artist, title, resp) ==
    IF artist = <<>> \/ title = <<>>
    THEN LyricsResponse(400, None, None, h, <<>>)
    ELSE LET r == ResolveLyrics(h, up, artist, title, resp) IN
         IF r.status = 404
         THEN [r EXCEPT !.h = _upsert_song(r.h, up,
                   [title |-> title, artist |-> artist,
                    lyrics |-> "", lyrics_source |-> None])]
         ELSE r

\* a get_lyrics that requires the database
get_lyrics_NeedingDb(h, up, artist, title, resp) ==
    IF artist = <<>> \/ title = <<>>
    THEN LyricsResponse(400, None, None, h, <<>>)
    ELSE IF ~up THEN LyricsResponse(500, None, None, h, <<>>)
    ELSE ResolveLyrics(h, up, artist, title, resp)

\* a get_lyrics without its validation
get_lyrics_Unvalidated(h, up, artist, title, resp) ==
    ResolveLyrics(h, up, artist, title, resp)

get_lyrics(h, up, artist, title, resp) ==
    IF artist = <<>> \/ title = <<>>
    THEN LyricsResponse(400, None, None, h, <<>>)
    ELSE ResolveLyrics(h, up, artist, title, resp)

-----------------------------------------------------------------------------
(* GET /api/trending.  A feed entry is a JSON object: im_name, im_artist,   *)
(* im_collection, im_image and link stand for "im:name", "im:artist",       *)
(* "im:collection", "im:image" and "link".  A link value says whether it is *)
(* a list or a dict.                                                        *)

EmptyDict == <<>>

LinkList(items) == [is |-> "list", items |-> items]

LinkDict(attributes) == [is |-> "dict", attributes |-> attributes]

AudioPrefix == <<"a", "u", "d", "i", "o", "/">>

\* l.get("attributes", {})
Attributes(l) == IF "attributes" \in DOMAIN l THEN l.attributes ELSE EmptyDict

\* attrs.get("type", "")
MediaType(attrs) == IF "type" \in DOMAIN attrs THEN attrs.type ELSE <<>>

\* the href of the last link of the list that has one
RECURSIVE LastHref(_)
LastHref(items) ==
    IF items = <<>> THEN None
    ELSE IF Truthy(Get(Attributes(items[Len(items)]), "href"))
         THEN Get(Attributes(items[Len(items)]), "href")
         ELSE LastHref(SubSeq(items, 1, Len(items) - 1))

\* the href of the first link of the list that has one
RECURSIVE FirstHref(_)
FirstHref(items) ==
    IF items = <<>> THEN None
    ELSE IF Truthy(Get(Attributes(Head(items)), "href"))
         THEN Get(Attributes(Head(items)), "href")
         ELSE FirstHref(Tail(items))

\* the href of the first link of the list whose type starts with "audio/"
RECURSIVE FirstAudioHref(_)
FirstAudioHref(items) ==
    IF items = <<>> THEN None
    ELSE LET attrs == Attributes(Head(items)) IN
         IF StartsWith(MediaType(attrs), AudioPrefix) /\ Truthy(Get(attrs, "href"))
         THEN Get(attrs, "href")
         ELSE FirstAudioHref(Tail(items))

EntryTitle(e) == IF "im_name" \in DOMAIN e THEN Get(e.im_name, "label") ELSE None

EntryArtist(e) == IF "im_artist" \in DOMAIN e THEN Get(e.im_artist, "label") ELSE None

EntryAlbum(e) ==
    IF "im_collection" \in DOMAIN e
    THEN IF "im_name" \in DOMAIN e.im_collection
         THEN Get(e.im_collection.im_name, "label")
         ELSE None
    ELSE None

EntryCover(e) ==
    LET images == IF "im_image" \in DOMAIN e THEN e.im_image ELSE <<>>
    IN  IF images # <<>> THEN images[Len(images)].label ELSE None

EntryAppleUrl(e) ==
    IF "link" \notin DOMAIN e THEN None
    ELSE IF e.link.is = "list" THEN FirstHref(e.link.items)
    ELSE Get(Attributes(e.link), "href")

EntryPreviewUrl(e) ==
    IF "link" \in DOMAIN e /\ e.link.is = "list"
    THEN FirstAudioHref(e.link.items)
    ELSE None

\* a document built with every field of the Song schema, the lyrics fields at
\* their default
EntryDocAllFields(e, idx, country) ==
    [title |-> EntryTitle(e), artist |-> EntryArtist(e), album |-> EntryAlbum(e),
     cover |-> EntryCover(e), apple_url |-> EntryAppleUrl(e),
     preview_url |-> EntryPreviewUrl(e), rank |-> idx, country |-> country,
     tags |-> <<"trending">>, lyrics |-> None, lyrics_source |-> None]

\* a document ranked from 0, as enumerate(entries) without start=1 would
EntryDocZeroBased(e, idx, country) ==
    [title |-> EntryTitle(e), artist |-> EntryArtist(e), album |-> EntryAlbum(e),
     cover |-> EntryCover(e), apple_url |-> EntryAppleUrl(e),
     preview_url |-> EntryPreviewUrl(e), rank |-> idx - 1, country |-> country,
     tags |-> <<"trending">>]

\* the document get_trending upserts for the entry at position idx
EntryDoc(e, idx, country) ==
    [title |-> EntryTitle(e), artist |-> EntryArtist(e), album |-> EntryAlbum(e),
     cover |-> EntryCover(e), apple_url |-> EntryAppleUrl(e),
     preview_url |-> EntryPreviewUrl(e), rank |-> idx, country |-> country,
     tags |-> <<"trending">>]

\* the lyrics length above which a chart entry is flagged lyrics_available
MinLyricsLen == 30

\* a flag that is true as soon as there is a record
LyricsAvailableAnyRecord(h, up, title, artist) ==
    IF ~up THEN [h |-> h, flag |-> FALSE]
    ELSE LET g == _get_song_from_db(h, up, title, artist)
         IN  [h |-> g.h, flag |-> g.doc # NoDoc]

\* the handle after the check, and the flag
LyricsAvailable(h, up, title, artist) ==
    IF ~up THEN [h |-> h, flag |-> FALSE]
    ELSE LET g == _get_song_from_db(h, up, title, artist)
         IN  [h |-> g.h,
              flag |-> /\ g.doc # NoDoc
                       /\ Truthy(Get(g.doc, "lyrics"))
                       /\ Len(Get(g.doc, "lyrics")) > MinLyricsLen]

SongOut(doc, avail) ==
    [title |-> doc.title, artist |-> doc.artist, album |-> doc.album,
     cover |-> doc.cover, apple_url |-> doc.apple_url,
     preview_url |-> doc.preview_url, lyrics_available |-> avail, rank |-> doc.rank]

\* the loop over the entries, from position idx on
RECURSIVE IngestFrom(_, _, _, _, _, _)
IngestFrom(h, up, country, entries, idx, out) ==
    IF idx > Len(entries) THEN [h |-> h, out |-> out]
    ELSE LET doc == EntryDoc(entries[idx], idx, country)
             h2  == _upsert_song(h, up, doc)
             a   == LyricsAvailable(h2, up, doc.title, doc.artist)
         IN  IngestFrom(a.h, up, country, entries, idx + 1,
                        Append(out, SongOut(doc, a.flag)))

\* a response of get_trending: the status, the list returned, the handle
TrendingResponse(status, out, h) == [status |-> status, out |-> out, h |-> h]

\* a fetch without raise_for_status
FeedFetchedAnyStatus(feed) ==
    /\ feed.kind = "http"
    /\ feed.body.json # "invalid"

\* requests.get, raise_for_status and res.json() succeed
FeedFetched(feed) ==
    /\ feed.kind = "http"
    /\ ~(400 <= feed.status /\ feed.status < 600)
    /\ feed.body.json # "invalid"

\* data.get("feed", {}).get("entry", [])
FeedEntries(data) ==
    IF "feed" \in DOMAIN data.fields
    THEN IF "entry" \in DOMAIN data.fields.feed THEN data.fields.feed.entry ELSE <<>>
    ELSE <<>>

\* feed is what requests.get does for the chart URL
get_trending(h, up, country, feed) ==
    IF ~FeedFetched(feed) THEN TrendingResponse(502, <<>>, h)
    ELSE IF feed.body.json # "object" THEN TrendingResponse(500, <<>>, h)
    ELSE LET r == IngestFrom(h, up, country, FeedEntries(feed.body), 1, <<>>)
         IN  TrendingResponse(200, r.out, r.h)

-----------------------------------------------------------------------------
(* The inputs of the requests *)

\* the longest chart feed
MaxFeed == 2

Artists == {<<>>, <<"x">>}

Titles == {<<>>, <<"a">>, <<" ", "a">>}

\* the text each provider has: 31, 8 and 30 characters
LyristText == "Lyrist lyrics, thirty-one chars"

OvhText == "La la la"

SraText == "Some-random lyrics, thirty ch."

ProviderText == <<LyristText, OvhText, SraText>>

Texted(i) == Http(200, JsonObject([lyrics |-> ProviderText[i]]))

\* the providers on a request of the service: all down, one of them answering
\* with its text, all three answering
ServiceResponses ==
    { <<NetError, NetError, NetError>>,
      <<Texted(1), NetError, NetError>>,
      <<NetError, Texted(2), NetError>>,
      <<NetError, NetError, Texted(3)>>,
      <<Texted(1), Texted(2), Texted(3)>> }

\* the lyrics requests: <<artist, title, what the providers do>>; a request
\* with an empty parameter comes with providers that would all answer
LyricsRequests ==
    {<<artist, title, resp>> :
        artist \in Artists \ {<<>>}, title \in Titles \ {<<>>}, resp \in ServiceResponses}
    \cup {<<p[1], p[2], <<Texted(1), Texted(2), Texted(3)>>>> :
            p \in {x \in Artists \X Titles : x[1] = <<>> \/ x[2] = <<>>}}

\* every way a provider call can go
AllAnswers(i) ==
    { NetError,
      Http(404, JsonObject([lyrics |-> ProviderText[i]])),
      Http(200, NotJson),
      Http(200, JsonArray),
      Http(200, JsonObject(EmptyDict)),
      Http(200, JsonObject([lyrics |-> ""])),
      Http(200, JsonObject([lyrics |-> ProviderText[i]])),
      Http(200, JsonObject([lyric |-> ProviderText[i]])),
      Http(200, JsonObject([lyrics |-> "", lyric |-> ProviderText[i]])) }

AllResponses ==
    {<<a, b, c>> : a \in AllAnswers(1), b \in AllAnswers(2), c \in AllAnswers(3)}

HtmlType == <<"t", "e", "x", "t", "/", "h">>

AudioType == <<"a", "u", "d", "i", "o", "/", "m">>

\* a chart entry with every field
FullEntry ==
    [im_name |-> [label |-> <<"a">>], im_artist |-> [label |-> <<"x">>],
     im_collection |-> [im_name |-> [label |-> "album"]],
     im_image |-> <<[label |-> "img55"], [label |-> "img170"]>>,
     link |-> LinkList(<<[attributes |-> [href |-> "web", type |-> HtmlType]],
                         [attributes |-> [href |-> "m4a", type |-> AudioType]]>>)]

\* a chart entry with one link only, whose title has a leading space
BareEntry ==
    [im_name |-> [label |-> <<" ", "a">>], im_artist |-> [label |-> <<"x">>],
     link |-> LinkDict([href |-> "web2"])]

ChartEntries == {FullEntry, BareEntry}

SeqsUpTo(S, n) == UNION {[1..k -> S] : k \in 0..n}

FeedOf(entries) == Http(200, JsonObject([feed |-> [entry |-> entries]]))

\* what requests.get can do for the chart URL
Feeds ==
    { NetError,
      Http(503, JsonObject([feed |-> [entry |-> <<FullEntry>>]])),
      Http(200, NotJson),
      Http(200, JsonArray) }
    \cup {FeedOf(es) : es \in SeqsUpTo(ChartEntries, MaxFeed)}

\* the chart requests: <<country, what the feed does>>; the second country
\* has the charts of one entry
ChartRequests ==
    {<<"id", feed>> : feed \in Feeds}
    \cup {<<"us", FeedOf(es)>> : es \in SeqsUpTo(ChartEntries, 1) \ {<<>>}}

-----------------------------------------------------------------------------
(* The service: requests are served one after the other *)

Request(op, artist, title, resp, country, feed) ==
    [op |-> op, artist |-> artist, title |-> title, resp |-> resp,
     country |-> country, feed |-> feed]

\* what is recorded of a request: its inputs, its response, its trace
Served(req, status, lyrics, source, out, calls, raised, h) ==
    [op |-> req.op, artist |-> req.artist, title |-> req.title, resp |-> req.resp,
     country |-> req.country, feed |-> req.feed,
     status |-> status, lyrics |-> lyrics, source |-> source, out |-> out,
     calls |-> calls, raised |-> raised, reads |-> h.reads, writes |-> h.writes]

NoRequest ==
    Served(Request("none", <<>>, <<>>, <<>>, None, NetError),
           0, None, None, <<>>, <<>>, FALSE, Handle({}))

\* a get_trending being served: where it stands ("fetch", "upsert", "check",
\* "done") and its locals
TrendingRun(pc, country, feed, entries, idx, out, status) ==
    [pc |-> pc, country |-> country, feed |-> feed, entries |-> entries,
     idx |-> idx, out |-> out, status |-> status]

\* a get_lyrics being served: where it stands ("lookup", "fetch", "upsert",
\* "done") and its locals
LyricsRun(pc, artist, title, resp, cached, lyrics, source, calls, status) ==
    [pc |-> pc, artist |-> artist, title |-> title, resp |-> resp,
     cached |-> cached, lyrics |-> lyrics, source |-> source, calls |-> calls,
     status |-> status]

\* no request is being served at the same time as another
Idle ==
    [trend |-> TrendingRun("done", None, NetError, <<>>, 1, <<>>, 0), lyr |-> <<>>]

\* what the request l, if it is a get_trending, reported as lyrics_available
\* for the entries with this title and artist
ReportedFor(l, title, artist) ==
    LET listed == {i \in 1..Len(l.out) :
                      l.out[i].title = title /\ l.out[i].artist = artist}
    IN  IF l.op # "trending" \/ listed = {} THEN "none"
        ELSE IF \E i \in listed : l.out[i].lyrics_available THEN "true"
        ELSE "false"

Init ==
    /\ dbUp \in BOOLEAN
    /\ song = {}
    /\ last = NoRequest
    /\ repeated = FALSE
    /\ parity = FALSE
    /\ flagged = "none"
    /\ run = Idle

GetLyrics ==
    \E q \in LyricsRequests :
        LET artist == q[1]
            title  == q[2]
            resp   == q[3]
        IN \E r \in {get_lyrics(Handle(song), dbUp, artist, title, resp)} :
        /\ song' = r.h.docs
        /\ last' = Served(Request("lyrics", artist, title, resp, None, NetError),
                          r.status, r.lyrics, r.source, <<>>, r.calls, FALSE, r.h)
        /\ repeated' = FALSE
        /\ parity' = ~parity
        /\ flagged' = ReportedFor(last, title, artist)
        /\ UNCHANGED <<dbUp, run>>

GetTrending ==
    \E q \in ChartRequests :
        LET country == q[1]
            feed    == q[2]
        IN \E r \in {get_trending(Handle(song), dbUp, country, feed)} :
        /\ song' = r.h.docs
        /\ last' = Served(Request("trending", <<>>, <<>>, <<>>, country, feed),
                          r.status, None, None, r.out, <<>>, FALSE, r.h)
        /\ repeated' = (last.op = "trending" /\ last.country = country /\ last.feed = feed)
        /\ parity' = ~parity
        /\ flagged' = "none"
        /\ UNCHANGED <<dbUp, run>>

Next == GetLyrics \/ GetTrending

Spec == Init /\ [][Next]_vars

-----------------------------------------------------------------------------------------------------------------------------------------------------
(* The provider chain alone, on every way the three calls can go: the      *)
(* initial states are the calls to make, the one step makes the call.      *)

InitFetch ==
    /\ dbUp = FALSE
    /\ song = {}
    /\ \E artist \in Artists \ {<<>>}, title \in Titles \ {<<>>}, resp \in AllResponses :
           last = Served(Request("call", artist, title, resp, None, NetError),
                         0, None, None, <<>>, <<>>, FALSE, Handle({}))
    /\ repeated = FALSE
    /\ parity = FALSE
    /\ flagged = "none"
    /\ run = Idle

Fetch ==
    /\ last.op = "call"
    /\ \E f \in {fetch_lyrics_from_providers(last.artist, last.title, last.resp)} :
       last' = Served(Request("fetch", last.artist, last.title, last.resp, None, NetError),
                      0, f.lyrics, f.source, <<>>, f.calls, f.raised, Handle({}))
    /\ UNCHANGED <<dbUp, song, repeated, parity, flagged, run>>

NextFetch == Fetch

SpecFetch == InitFetch /\ [][NextFetch]_vars

-----------------------------------------------------------------------------
(* The mapping of an entry's links alone, on every list of links: the      *)
(* initial states are the charts of one entry to ingest, the one step      *)
(* ingests the chart.                                                      *)

\* the longest list of links
MaxLinks == 2

AudioNoSlash == <<"a", "u", "d", "i", "o">>

\* the attributes of a link: with or without an href (empty or not), with or
\* without a type
LinkAttributes ==
    {[rel |-> "alternate"]}
    \cup {[rel |-> "alternate", href |-> u] : u \in {"", "web", "m4a"}}
    \cup {[rel |-> "alternate", type |-> t] : t \in {HtmlType, AudioType, AudioNoSlash}}
    \cup {[rel |-> "alternate", href |-> u, type |-> t] :
            u \in {"", "web", "m4a"}, t \in {HtmlType, AudioType, AudioNoSlash}}

\* the links: with attributes, or without any
LinkItems == {[attributes |-> a] : a \in LinkAttributes} \cup {[label |-> "link"]}

\* the link values of an entry: a list of links, or one link
LinkValues ==
    {LinkList(items) : items \in SeqsUpTo(LinkItems, MaxLinks)}
    \cup {LinkDict(a) : a \in LinkAttributes}

LinkedEntries ==
    {[im_name |-> [label |-> <<"a">>], im_artist |-> [label |-> <<"x">>], link |-> v] :
        v \in LinkValues}
    \cup {[im_name |-> [label |-> <<"a">>], im_artist |-> [label |-> <<"x">>]]}

InitMap ==
    /\ dbUp = TRUE
    /\ song = {}
    /\ \E e \in LinkedEntries :
           last = Served(Request("chart", <<>>, <<>>, <<>>, "id", FeedOf(<<e>>)),
                         0, None, None, <<>>, <<>>, FALSE, Handle({}))
    /\ repeated = FALSE
    /\ parity = FALSE
    /\ flagged = "none"
    /\ run = Idle

Ingest ==
    /\ last.op = "chart"
    /\ \E r \in {get_trending(Handle(song), dbUp, last.country, last.feed)} :
          /\ song' = r.h.docs
          /\ last' = Served(Request("trending", <<>>, <<>>, <<>>, last.country, last.feed),
                            r.status, None, None, r.out, <<>>, FALSE, r.h)
    /\ parity' = ~parity
    /\ UNCHANGED <<dbUp, repeated, flagged, run>>

NextMap == Ingest

SpecMap == InitMap /\ [][NextMap]_vars

-----------------------------------------------------------------------------
(* Requests served at the same time.  The handlers are plain functions, so  *)
(* the server runs each request on its own thread; they share the storage   *)
(* only.  A step is one storage operation (update_one, find_one), each      *)
(* taken as atomic, or the work of a handler between two of them.  One      *)
(* get_trending and one or two get_lyrics start together on empty storage.  *)

\* the providers on a request served with others: all down, or one answering
ConcResponses ==
    { <<NetError, NetError, NetError>>,
      <<Texted(1), NetError, NetError>>,
      <<NetError, Texted(2), NetError>>,
      <<NetError, NetError, Texted(3)>> }

ConcLyrics ==
    {LyricsRun("lookup", artist, title, resp, NoDoc, None, None, <<>>, 0) :
        artist \in Artists \ {<<>>}, title \in Titles \ {<<>>}, resp \in ConcResponses}

InitConc ==
    /\ dbUp = TRUE
    /\ song = {}
    /\ last = NoRequest
    /\ repeated = FALSE
    /\ parity = FALSE
    /\ flagged = "none"
    /\ \E feed \in Feeds, ls \in {<<a>> : a \in ConcLyrics}
                              \cup {<<a, b>> : a \in ConcLyrics, b \in ConcLyrics} :
           run = [trend |-> TrendingRun("fetch", "id", feed, <<>>, 1, <<>>, 0),
                  lyr |-> ls]

\* get_trending up to the loop: the feed is fetched and parsed
TrendFetch ==
    /\ run.trend.pc = "fetch"
    /\ LET t == run.trend IN
       run' = [run EXCEPT !.trend =
                 IF ~FeedFetched(t.feed) THEN [t EXCEPT !.pc = "done", !.status = 502]
                 ELSE IF t.feed.body.json # "object"
                 THEN [t EXCEPT !.pc = "done", !.status = 500]
                 ELSE IF FeedEntries(t.feed.body) = <<>>
                 THEN [t EXCEPT !.pc = "done", !.status = 200]
                 ELSE [t EXCEPT !.pc = "upsert", !.entries = FeedEntries(t.feed.body)]]
    /\ UNCHANGED <<dbUp, song, last, repeated, parity, flagged>>

\* the loop body up to and with _upsert_song(doc)
TrendUpsert ==
    /\ run.trend.pc = "upsert"
    /\ LET t   == run.trend
           doc == EntryDoc(t.entries[t.idx], t.idx, t.country)
       IN  /\ song' = _upsert_song(Handle(song), dbUp, doc).docs
           /\ run' = [run EXCEPT !.trend.pc = "check"]
    /\ UNCHANGED <<dbUp, last, repeated, parity, flagged>>

\* the rest of the loop body: the lyrics_available lookup and the summary
TrendCheck ==
    /\ run.trend.pc = "check"
    /\ LET t   == run.trend
           doc == EntryDoc(t.entries[t.idx], t.idx, t.country)
           a   == LyricsAvailable(Handle(song), dbUp, doc.title, doc.artist)
       IN  run' = [run EXCEPT !.trend =
                     [t EXCEPT !.out = Append(t.out, SongOut(doc, a.flag)),
                               !.idx = t.idx + 1,
                               !.pc = IF t.idx = Len(t.entries) THEN "done" ELSE "upsert",
                               !.status = IF t.idx = Len(t.entries) THEN 200 ELSE 0]]
    /\ UNCHANGED <<dbUp, song, last, repeated, parity, flagged>>

\* get_lyrics, the cache lookup: served from the cache, or on to the providers
LyricsLookup(k) ==
    /\ run.lyr[k].pc = "lookup"
    /\ LET l == run.lyr[k]
           g == _get_song_from_db(Handle(song), dbUp, l.title, l.artist)
       IN  run' = [run EXCEPT !.lyr[k] =
                     IF g.doc # NoDoc /\ Truthy(Get(g.doc, "lyrics"))
                     THEN [l EXCEPT !.pc = "done", !.cached = g.doc, !.status = 200,
                                    !.lyrics = Get(g.doc, "lyrics"),
                                    !.source = Get(g.doc, "lyrics_source")]
                     ELSE [l EXCEPT !.pc = "fetch", !.cached = g.doc]]
    /\ UNCHANGED <<dbUp, song, last, repeated, parity, flagged>>

\* get_lyrics, the provider chain
LyricsFetch(k) ==
    /\ run.lyr[k].pc = "fetch"
    /\ \E f \in {fetch_lyrics_from_providers(run.lyr[k].artist, run.lyr[k].title,
                                             run.lyr[k].resp)} :
       run' = [run EXCEPT !.lyr[k] =
                 IF f.raised THEN [@ EXCEPT !.pc = "done", !.status = 500, !.calls = f.calls]
                 ELSE IF ~Truthy(f.lyrics)
                 THEN [@ EXCEPT !.pc = "done", !.status = 404, !.calls = f.calls]
                 ELSE [@ EXCEPT !.pc = "upsert", !.calls = f.calls,
                                !.lyrics = f.lyrics, !.source = f.source]]
    /\ UNCHANGED <<dbUp, song, last, repeated, parity, flagged>>

\* get_lyrics, the cache update and the response
LyricsUpsert(k) ==
    /\ run.lyr[k].pc = "upsert"
    /\ LET l   == run.lyr[k]
           doc == [title |-> l.title, artist |-> l.artist,
                   lyrics |-> l.lyrics, lyrics_source |-> l.source]
       IN  song' = IF dbUp THEN _upsert_song(Handle(song), dbUp, doc).docs ELSE song
    /\ run' = [run EXCEPT !.lyr[k].pc = "done", !.lyr[k].status = 200]
    /\ UNCHANGED <<dbUp, last, repeated, parity, flagged>>

NextConc ==
    \/ TrendFetch
    \/ TrendUpsert
    \/ TrendCheck
    \/ \E k \in DOMAIN run.lyr : LyricsLookup(k)
    \/ \E k \in DOMAIN run.lyr : LyricsFetch(k)
    \/ \E k \in DOMAIN run.lyr : LyricsUpsert(k)

SpecConc == InitConc /\ [][NextConc]_vars

-----------------------------------------------------------------------------
(* Vocabulary of the properties *)

\* the provider names, in the order the specification gives them
ChainOrder == <<"lyrist", "lyrics.ovh", "some-random-api">>

\* the i-th provider answers r with non-empty lyrics: status 200, a JSON
\* object, a non-empty lyrics field (for the first provider: or lyric field)
Answers(i, r) ==
    /\ r.kind = "http"
    /\ r.status = 200
    /\ r.body.json = "object"
    /\ \/ Truthy(Get(r.body.fields, "lyrics"))
       \/ i = 1 /\ Truthy(Get(r.body.fields, "lyric"))

\* the text of an answer
AnswerText(r) ==
    IF Truthy(Get(r.body.fields, "lyrics"))
    THEN Get(r.body.fields, "lyrics")
    ELSE Get(r.body.fields, "lyric")

NoneAnswers(resp) == \A i \in 1..3 : ~Answers(i, resp[i])

\* the first provider that answers (there is one)
FirstAnswering(resp) ==
    CHOOSE i \in 1..3 : Answers(i, resp[i]) /\ \A j \in 1..(i - 1) : ~Answers(j, resp[j])

\* the documents stored under exactly the pair (title, artist)
StoredFor(docs, title, artist) == {d \in docs : d.title = title /\ d.artist = artist}

\* the last request is a get_lyrics with both parameters non-empty
ResolvedLast(l) == l.op = "lyrics" /\ l.artist # <<>> /\ l.title # <<>>

-----------------------------------------------------------------------------
(* C1 *)

\* C1 (cache precedence): a get_lyrics(artist, title) with both non-empty, served
\* while storage holds a record for exactly that (title, artist) with non-empty
\* lyrics, calls no provider and returns that record's lyrics and lyrics_source.
C1_CachePrecedence ==
    [][ResolvedLast(last') =>
          \A d \in StoredFor(song, last'.title, last'.artist) :
              Truthy(Get(d, "lyrics")) =>
                  /\ last'.calls = <<>>
                  /\ last'.status = 200
                  /\ last'.lyrics = Get(d, "lyrics")
                  /\ last'.source = Get(d, "lyrics_source")]_vars

-----------------------------------------------------------------------------
(* C2, under SpecFetch *)

\* C2 (fallback order): the chain calls lyrist, lyrics.ovh, some-random-api in
\* that order, each at most once, up to and including the first that answers
\* with non-empty lyrics, and returns that provider's text and name; when none
\* answers it has called all three.
C2_FallbackOrder ==
    last.op = "fetch" =>
        IF NoneAnswers(last.resp)
        THEN last.calls = ChainOrder
        ELSE LET k == FirstAnswering(last.resp) IN
             /\ last.calls = SubSeq(ChainOrder, 1, k)
             /\ last.lyrics = AnswerText(last.resp[k])
             /\ last.source = ChainOrder[k]

\* the first provider fails, the second and the third would answer: the result
\* is the second's, and the third is not called
C2_Witness ==
    /\ last.op = "fetch"
    /\ last.resp[1] = NetError
    /\ Answers(2, last.resp[2])
    /\ Answers(3, last.resp[3])
    /\ last.lyrics = "La la la"
    /\ last.source = "lyrics.ovh"
    /\ last.calls = <<"lyrist", "lyrics.ovh">>

-----------------------------------------------------------------------------
(* C3 *)

\* the lookup get_lyrics makes finds no lyrics for the request
CacheMisses(docs, up, title, artist) ==
    \/ ~up
    \/ \A d \in StoredFor(docs, Strip(title), Strip(artist)) : ~Truthy(Get(d, "lyrics"))

-----------------------------------------------------------------------------
(* C4 *)

LyricsFields == {"lyrics", "lyrics_source"}

\* C4 (persist on success): with storage up, a get_lyrics that goes to the
\* providers, where provider P is the first to answer, with text L, returns
\* (L, P); afterwards there is one record for exactly (title, artist), it has
\* lyrics L and lyrics_source P, its other fields are those of the record there
\* was (none but title and artist if there was none), and every other record is
\* as it was.
C4_PersistOnSuccess ==
    [][(/\ ResolvedLast(last')
        /\ dbUp
        /\ last'.calls # <<>>
        /\ ~NoneAnswers(last'.resp))
       => LET k   == FirstAnswering(last'.resp)
              L   == AnswerText(last'.resp[k])
              P   == ChainOrder[k]
              old == StoredFor(song, last'.title, last'.artist)
              new == StoredFor(song', last'.title, last'.artist)
          IN  /\ last'.status = 200
              /\ last'.lyrics = L
              /\ last'.source = P
              /\ Cardinality(new) = 1
              /\ \A d \in new :
                    /\ Get(d, "lyrics") = L
                    /\ Get(d, "lyrics_source") = P
                    /\ \A o \in old :
                          /\ DOMAIN d = DOMAIN o \cup LyricsFields
                          /\ \A f \in DOMAIN o \ LyricsFields : d[f] = o[f]
                    /\ old = {} => DOMAIN d = {"title", "artist"} \cup LyricsFields
              /\ song' \ new = song \ old]_vars

\* a provider's lyrics were stored into a record that the chart ingest had made,
\* beside another record
C4_Witness ==
    /\ dbUp
    /\ ResolvedLast(last)
    /\ last.status = 200
    /\ last.calls # <<>>
    /\ last.writes = 1
    /\ Cardinality(song) = 2
    /\ \E d \in StoredFor(song, last.title, last.artist) :
          /\ Get(d, "lyrics") = last.lyrics
          /\ "rank" \in DOMAIN d
          /\ d.rank = 2
          /\ d.cover = "img170"

-----------------------------------------------------------------------------
(* C5 *)

\* C5 (ingestion preserves lyrics): a get_trending leaves the lyrics and
\* lyrics_source fields of every stored record, the records of the feed's songs
\* included, exactly as they were, and gives none to the records it creates.
C5_IngestKeepsLyrics ==
    [][last'.op = "trending" =>
          /\ \A d \in song :
                \E e \in StoredFor(song', d.title, d.artist) :
                    \A f \in LyricsFields :
                        /\ f \in DOMAIN e <=> f \in DOMAIN d
                        /\ Get(e, f) = Get(d, f)
          /\ \A e \in song' :
                StoredFor(song, e.title, e.artist) = {} => DOMAIN e \cap LyricsFields = {}]_vars

\* an ingested chart holds a song whose record has lyrics, and the record now
\* has chart fields and its lyrics
C5_Witness ==
    /\ last.op = "trending"
    /\ last.status = 200
    /\ last.writes > 0
    /\ \E i \in 1..Len(last.out) :
          \E d \in StoredFor(song, last.out[i].title, last.out[i].artist) :
              /\ Truthy(Get(d, "lyrics"))
              /\ Truthy(Get(d, "lyrics_source"))
              /\ "rank" \in DOMAIN d
              /\ d.rank = i

-----------------------------------------------------------------------------
(* C6 *)

\* C6 (ingest idempotence): a get_trending that repeats the request before it
\* (same country, same feed data, the same song at several positions or not)
\* leaves storage exactly as the first run left it.
C6_IngestIdempotent == [][repeated' => song' = song]_vars

\* a chart with the same song at two positions was ingested twice in a row
C6_Witness ==
    /\ repeated
    /\ dbUp
    /\ last.status = 200
    /\ Len(last.out) = 2
    /\ last.out[1].title = last.out[2].title
    /\ last.out[1].artist = last.out[2].artist
    /\ \E d \in StoredFor(song, last.out[2].title, last.out[2].artist) :
          "rank" \in DOMAIN d /\ d.rank = 2

-----------------------------------------------------------------------------
(* C7 *)

\* C7 (lyrics_available): in the list a get_trending returns, an entry's flag
\* is true exactly when a stored record for exactly that entry's (title, artist)
\* has lyrics longer than 30 characters; no provider is called.
C7_LyricsAvailable ==
    (last.op = "trending" /\ last.status = 200) =>
        /\ last.calls = <<>>
        /\ \A i \in 1..Len(last.out) :
              last.out[i].lyrics_available <=>
                  \E d \in StoredFor(song, last.out[i].title, last.out[i].artist) :
                      Truthy(Get(d, "lyrics")) /\ Len(Get(d, "lyrics")) > 30

-----------------------------------------------------------------------------
(* C8, under SpecFetch *)

\* C8 (provider failure isolation): however a provider call fails (network
\* error, non-200 status, a body that is no JSON or no JSON object, a missing or
\* empty lyrics field) the chain does not raise; it returns (None, None) exactly
\* when all three miss; and replacing one provider's miss by any other miss
\* changes neither the result nor the providers called.
C8_FailureIsolation ==
    last.op = "fetch" =>
        /\ ~last.raised
        /\ (last.lyrics = None /\ last.source = None) <=> NoneAnswers(last.resp)
        /\ NoneAnswers(last.resp) => last.calls = ChainOrder
        /\ \A i \in 1..3 : \A a \in AllAnswers(i) :
              (~Answers(i, last.resp[i]) /\ ~Answers(i, a)) =>
                  LET f == fetch_lyrics_from_providers(
                               last.artist, last.title, [last.resp EXCEPT ![i] = a])
                  IN  /\ f.lyrics = last.lyrics
                      /\ f.source = last.source
                      /\ f.calls = last.calls
                      /\ ~f.raised

\* the first call times out, the second gets a JSON array, the third answers
C8_Witness ==
    /\ last.op = "fetch"
    /\ last.resp[1] = NetError
    /\ last.resp[2] = Http(200, JsonArray)
    /\ Answers(3, last.resp[3])
    /\ last.source = "some-random-api"
    /\ last.lyrics = AnswerText(last.resp[3])
    /\ ~last.raised

-----------------------------------------------------------------------------
(* C9 *)

\* a chart feed that was fetched and is a JSON object
FeedListed(feed) ==
    /\ feed.kind = "http"
    /\ feed.status = 200
    /\ feed.body.json = "object"

\* C9 (storage unavailable): with db None, a get_lyrics with both parameters
\* non-empty answers as it would on empty storage: 200 with the text and name of
\* the first provider that answers, 404 when none does; a get_trending whose
\* feed was fetched returns one summary per entry, each with lyrics_available
\* false; neither makes a storage read or write.
C9_StorageDown ==
    ~dbUp =>
        /\ ResolvedLast(last) =>
              LET e == get_lyrics(Handle({}), TRUE, last.artist, last.title, last.resp) IN
              /\ last.status = e.status
              /\ last.lyrics = e.lyrics
              /\ last.source = e.source
              /\ IF NoneAnswers(last.resp)
                 THEN last.status = 404
                 ELSE LET k == FirstAnswering(last.resp) IN
                      /\ last.status = 200
                      /\ last.lyrics = AnswerText(last.resp[k])
                      /\ last.source = ChainOrder[k]
        /\ (last.op = "trending" /\ FeedListed(last.feed)) =>
              LET entries == last.feed.body.fields.feed.entry IN
              /\ last.status = 200
              /\ Len(last.out) = Len(entries)
              /\ \A i \in 1..Len(entries) :
                    /\ last.out[i].title = entries[i].im_name.label
                    /\ last.out[i].artist = entries[i].im_artist.label
                    /\ last.out[i].rank = i
                    /\ ~last.out[i].lyrics_available
        /\ last.reads = 0
        /\ last.writes = 0
        /\ song = {}

\* without storage, lyrics were resolved by the second provider
C9_Witness ==
    /\ ~dbUp
    /\ ResolvedLast(last)
    /\ last.status = 200
    /\ last.source = "lyrics.ovh"
    /\ last.lyrics = "La la la"

-----------------------------------------------------------------------------
(* C10 *)

\* the fetch of the chart feed fails: a network error, an HTTP error status,
\* or a body that is no JSON
FeedFails(feed) ==
    \/ feed.kind = "error"
    \/ feed.kind = "http" /\ feed.status >= 400
    \/ feed.kind = "http" /\ feed.body.json = "invalid"

\* C10 (feed failure): a get_trending whose feed fetch fails answers 502 with
\* no list, makes no storage write and leaves storage as it was.
C10_FeedFailure ==
    [][(last'.op = "trending" /\ FeedFails(last'.feed))
       => (/\ last'.status = 502
           /\ last'.out = <<>>
           /\ last'.writes = 0
           /\ song' = song)]_vars

\* a feed answered 503 with a body that lists an entry, storage holding a
\* record: 502, nothing returned
C10_Witness ==
    /\ dbUp
    /\ last.op = "trending"
    /\ last.feed.kind = "http"
    /\ last.feed.status = 503
    /\ last.status = 502
    /\ last.out = <<>>
    /\ song # {}

-----------------------------------------------------------------------------
(* C11 *)

\* the last position of the feed that has the title and artist of position i
LastPositionOf(entries, i) ==
    CHOOSE j \in 1..Len(entries) :
        /\ entries[j].im_name.label = entries[i].im_name.label
        /\ entries[j].im_artist.label = entries[i].im_artist.label
        /\ \A k \in (j + 1)..Len(entries) :
              \/ entries[k].im_name.label # entries[i].im_name.label
              \/ entries[k].im_artist.label # entries[i].im_artist.label

\* C11 (summary list shape): a get_trending whose feed was fetched, with n
\* entries, returns n summaries in feed order, the i-th with the i-th entry's
\* title and artist and rank i; with storage up, the record stored for an
\* entry's (title, artist) has the rank of the last entry with that pair.
C11_SummaryShape ==
    (last.op = "trending" /\ FeedListed(last.feed)) =>
        LET entries == last.feed.body.fields.feed.entry IN
        /\ last.status = 200
        /\ Len(last.out) = Len(entries)
        /\ \A i \in 1..Len(entries) :
              /\ last.out[i].title = entries[i].im_name.label
              /\ last.out[i].artist = entries[i].im_artist.label
              /\ last.out[i].rank = i
              /\ dbUp =>
                    /\ StoredFor(song, last.out[i].title, last.out[i].artist) # {}
                    /\ \A d \in StoredFor(song, last.out[i].title, last.out[i].artist) :
                          "rank" \in DOMAIN d /\ d.rank = LastPositionOf(entries, i)

\* a chart of two different songs was listed and stored, with ranks 1 and 2
C11_Witness ==
    /\ dbUp
    /\ last.op = "trending"
    /\ last.status = 200
    /\ Len(last.out) = 2
    /\ last.out[1].title # last.out[2].title
    /\ last.out[1].rank = 1
    /\ last.out[2].rank = 2
    /\ \E d \in StoredFor(song, last.out[2].title, last.out[2].artist) :
          "rank" \in DOMAIN d /\ d.rank = 2

-----------------------------------------------------------------------------
(* C12 *)

\* C12 (input validation): a get_lyrics with an empty artist or an empty title
\* answers 400 without a storage lookup, a provider call or a storage write,
\* and leaves storage as it was.
C12_InputValidation ==
    [][(last'.op = "lyrics" /\ (last'.artist = <<>> \/ last'.title = <<>>))
       => (/\ last'.status = 400
           /\ last'.reads = 0
           /\ last'.calls = <<>>
           /\ last'.writes = 0
           /\ song' = song)]_vars

\* a request with an empty title, a non-empty artist and providers that would
\* answer was refused, storage up and holding a record
C12_Witness ==
    /\ dbUp
    /\ song # {}
    /\ last.op = "lyrics"
    /\ last.title = <<>>
    /\ last.artist # <<>>
    /\ Answers(1, last.resp[1])
    /\ last.status = 400
    /\ last.reads = 0

-----------------------------------------------------------------------------
(* C13, under SpecMap *)

\* a link has a non-empty href
HasHref(l) == "attributes" \in DOMAIN l /\ Truthy(Get(l.attributes, "href"))

\* a link's type starts with "audio/"
AudioTyped(l) ==
    /\ "attributes" \in DOMAIN l
    /\ "type" \in DOMAIN l.attributes
    /\ Len(l.attributes.type) >= 6
    /\ SubSeq(l.attributes.type, 1, 6) = <<"a", "u", "d", "i", "o", "/">>

\* the positions of the links with an href that are not audio-typed, and of
\* those that are
WebLinks(items) == {i \in 1..Len(items) : HasHref(items[i]) /\ ~AudioTyped(items[i])}

AudioLinks(items) == {i \in 1..Len(items) : HasHref(items[i]) /\ AudioTyped(items[i])}

\* the one entry of the chart that was ingested
IngestedEntry == last.feed.body.fields.feed.entry[1]

\* the entry ingested has a list of links with one non-audio link with an href
\* and one audio-typed link with an href
OneWebOneAudio ==
    /\ last.op = "trending"
    /\ "link" \in DOMAIN IngestedEntry
    /\ IngestedEntry.link.is = "list"
    /\ Cardinality(WebLinks(IngestedEntry.link.items)) = 1
    /\ Cardinality(AudioLinks(IngestedEntry.link.items)) = 1

\* the summary returned and the record stored have these two URLs
MappedTo(apple, preview) ==
    /\ last.status = 200
    /\ Len(last.out) = 1
    /\ last.out[1].apple_url = apple
    /\ last.out[1].preview_url = preview
    /\ Cardinality(song) = 1
    /\ \A d \in song : d.apple_url = apple /\ d.preview_url = preview

\* C13 as stated (link mapping): for a link list with one non-audio link with an
\* href and one audio-typed link with an href, in either order, apple_url is the
\* non-audio href and preview_url the audio-typed href.
C13_LinkMappingAnyOrder ==
    OneWebOneAudio =>
        LET items == IngestedEntry.link.items
            w == CHOOSE i \in WebLinks(items) : TRUE
            a == CHOOSE i \in AudioLinks(items) : TRUE
        IN  MappedTo(items[w].attributes.href, items[a].attributes.href)

\* C13 as amended: the same, for the lists where the non-audio link comes before
\* the audio-typed link.
C13_LinkMappingWebFirst ==
    OneWebOneAudio =>
        LET items == IngestedEntry.link.items
            w == CHOOSE i \in WebLinks(items) : TRUE
            a == CHOOSE i \in AudioLinks(items) : TRUE
        IN  w < a => MappedTo(items[w].attributes.href, items[a].attributes.href)

\* a web link followed by a preview link, with different hrefs, was mapped
C13_Witness ==
    /\ OneWebOneAudio
    /\ Len(IngestedEntry.link.items) = 2
    /\ WebLinks(IngestedEntry.link.items) = {1}
    /\ AudioLinks(IngestedEntry.link.items) = {2}
    /\ MappedTo("web", "m4a")

-----------------------------------------------------------------------------
(* C14 *)

\* the (title, artist) pairs that have a record
StoredKeys(docs) == {<<d.title, d.artist>> : d \in docs}

\* C14 (record identity): from empty storage, after every request there is at
\* most one record for a (title, artist) pair, and every pair that had a record
\* before the request has one after it.
C14_RecordIdentity ==
    [][/\ \A d \in song' : StoredFor(song', d.title, d.artist) = {d}
       /\ StoredKeys(song) \subseteq StoredKeys(song')]_vars

\* two records, one of them written by the ingest and then by the resolver
C14_Witness ==
    /\ Cardinality(song) = 2
    /\ Cardinality(StoredKeys(song)) = 2
    /\ last.op = "lyrics"
    /\ last.writes = 1
    /\ \E d \in StoredFor(song, last.title, last.artist) :
          /\ "rank" \in DOMAIN d
          /\ "lyrics" \in DOMAIN d
          /\ "tags" \in DOMAIN d

-----------------------------------------------------------------------------
(* C15 *)

\* C15 (repeat resolve hits the cache): with storage up, a get_lyrics that
\* follows at once a get_lyrics with the same non-empty artist and title that a
\* provider answered calls no provider and returns the same lyrics and source.
C15_RepeatHitsCache ==
    [][(/\ dbUp
        /\ ResolvedLast(last)
        /\ last.status = 200
        /\ last.calls # <<>>
        /\ last'.op = "lyrics"
        /\ last'.artist = last.artist
        /\ last'.title = last.title)
       => (/\ last'.calls = <<>>
           /\ last'.status = 200
           /\ last'.lyrics = last.lyrics
           /\ last'.source = last.source)]_vars

-----------------------------------------------------------------------------
(* C16 *)

\* the requests served at the same time have all returned
AllDone == run.trend.pc = "done" /\ \A k \in DOMAIN run.lyr : run.lyr[k].pc = "done"

\* the get_lyrics l returned lyrics it got from a provider, and stored them
ResolvedByProvider(l) == l.pc = "done" /\ l.status = 200 /\ l.calls # <<>>

\* the positions of the returned chart that have this title and artist
ListedAt(out, title, artist) ==
    {i \in 1..Len(out) : out[i].title = title /\ out[i].artist = artist}

\* the record d has the chart fields of the summary s of a chart of country c
CarriesChart(d, s, c) ==
    /\ {"rank", "country", "tags", "album", "cover", "apple_url", "preview_url"}
           \subseteq DOMAIN d
    /\ d.rank = s.rank
    /\ d.country = c
    /\ d.tags = <<"trending">>
    /\ d.album = s.album
    /\ d.cover = s.cover
    /\ d.apple_url = s.apple_url
    /\ d.preview_url = s.preview_url

\* the record d has the lyrics and source some get_lyrics got for its pair
CarriesResolved(d) ==
    /\ LyricsFields \subseteq DOMAIN d
    /\ \E j \in DOMAIN run.lyr :
          /\ ResolvedByProvider(run.lyr[j])
          /\ run.lyr[j].title = d.title
          /\ run.lyr[j].artist = d.artist
          /\ d.lyrics = run.lyr[j].lyrics
          /\ d.lyrics_source = run.lyr[j].source

\* C16 (no lost update between ingest and resolve): when a get_trending that
\* returned its chart and a get_lyrics that a provider answered, for a title
\* and artist of that chart, ran at the same time, then under every
\* interleaving of their storage operations the one record of that pair ends
\* with the chart fields of the ingest (rank, country, tags, album, cover,
\* links) and with the lyrics and lyrics_source of a resolve.
C16_NoLostUpdate ==
    (AllDone /\ run.trend.status = 200) =>
        \A k \in DOMAIN run.lyr :
            LET l      == run.lyr[k]
                listed == ListedAt(run.trend.out, l.title, l.artist)
            IN  (ResolvedByProvider(l) /\ listed # {}) =>
                    \E d \in song :
                        /\ StoredFor(song, l.title, l.artist) = {d}
                        /\ \E i \in listed :
                              /\ \A j \in listed : j <= i
                              /\ CarriesChart(d, run.trend.out[i], run.trend.country)
                        /\ CarriesResolved(d)

\* one get_lyrics ran with the get_trending: its lookup found the record the
\* ingest had just stored, without lyrics, and its lyrics were stored before
\* the ingest came to compute lyrics_available
C16_Witness ==
    /\ AllDone
    /\ run.trend.status = 200
    /\ Len(run.trend.out) = 1
    /\ Len(run.lyr) = 1
    /\ ResolvedByProvider(run.lyr[1])
    /\ run.lyr[1].cached # NoDoc
    /\ run.trend.out[1].lyrics_available
    /\ \E d \in StoredFor(song, run.lyr[1].title, run.lyr[1].artist) :
          /\ "rank" \in DOMAIN d /\ d.rank = 1
          /\ "lyrics" \in DOMAIN d /\ d.lyrics = "Lyrist lyrics, thirty-one chars"

-----------------------------------------------------------------------------
(* C17 *)

\* C17 (lyrics/source pairing): from empty storage, in every state, also while
\* get_lyrics requests for the same pair answered by different providers run
\* at the same time, every record with non-empty lyrics has as lyrics_source
\* one of "lyrist", "lyrics.ovh", "some-random-api", and that provider's
\* response to a get_lyrics for the record's pair supplied exactly the stored
\* text.
C17_LyricsSourcePairing ==
    \A d \in song :
        ("lyrics" \in DOMAIN d /\ Truthy(d.lyrics)) =>
            /\ "lyrics_source" \in DOMAIN d
            /\ \E i \in 1..3, k \in DOMAIN run.lyr :
                  /\ d.lyrics_source = ChainOrder[i]
                  /\ run.lyr[k].title = d.title
                  /\ run.lyr[k].artist = d.artist
                  /\ Answers(i, run.lyr[k].resp[i])
                  /\ AnswerText(run.lyr[k].resp[i]) = d.lyrics

\* two get_lyrics for the same pair, answered by different providers, both
\* missed the cache and both stored; the record has what the first one got
C17_Witness ==
    /\ AllDone
    /\ Len(run.lyr) = 2
    /\ run.lyr[1].title = run.lyr[2].title
    /\ run.lyr[1].artist = run.lyr[2].artist
    /\ ResolvedByProvider(run.lyr[1])
    /\ ResolvedByProvider(run.lyr[2])
    /\ run.lyr[1].source = "some-random-api"
    /\ run.lyr[2].source = "lyrist"
    /\ \E d \in StoredFor(song, run.lyr[1].title, run.lyr[1].artist) :
          /\ "lyrics" \in DOMAIN d
          /\ d.lyrics = run.lyr[1].lyrics
          /\ d.lyrics_source = run.lyr[1].source

-----------------------------------------------------------------------------
(* C18 *)

\* C18 (availability flag agrees with the resolver): a get_lyrics that follows
\* at once a get_trending that reported lyrics_available = true for its title
\* and artist is served from the cache: 200, no provider called, lyrics longer
\* than 30 characters.
C18_FlagImpliesCached ==
    flagged = "true" =>
        /\ last.status = 200
        /\ last.calls = <<>>
        /\ last.writes = 0
        /\ Len(last.lyrics) > 30

\* the entry was listed with lyrics_available = true and the lyrics request
\* after it, whose providers would all have answered, came from the cache
C18_Witness ==
    /\ flagged = "true"
    /\ ResolvedLast(last)
    /\ last.status = 200
    /\ last.calls = <<>>
    /\ Answers(1, last.resp[1])
    /\ last.lyrics = "Lyrist lyrics, thirty-one chars"

\* the converse of C18, which the claim says does not hold: a get_lyrics after
\* a get_trending that reported false for its pair is not served from the cache
C18_Converse == flagged = "false" => last.calls # <<>>

====
